---- MODULE Spec2Model ----
(***************************************************************************)
(* Model of src/f5_tts/socket_server.py: the chunking generator            *)
(* TTSStreamingProcessor.generate_stream, the per-connection handler        *)
(* handle_client and the accept loop start_server.                          *)
(*                                                                          *)
(* Two specifications are defined over the same variables:                  *)
(*   ChunkSpec  runs one generate_stream generator to exhaustion on every   *)
(*              (sample sequence, sample rate) input within the bounds;     *)
(*   Spec       runs the accept loop, the handler threads and their peers.  *)
(***************************************************************************)
EXTENDS Integers, Sequences, FiniteSets, TLC

\* ---------------------------------------------------------------- bounds
MaxSamples == 5          \* longest sample sequence fed to the generator (ChunkSpec)
MaxRate == 8             \* largest sample rate fed to the generator (ChunkSpec)
MaxPayload == 2          \* longest sample sequence a handler's synthesizer returns (Spec)
MaxConnRate == 4         \* largest sample rate a handler's synthesizer returns (Spec)
MaxLen == 2              \* longest client message, in bytes
MaxRequests == 2         \* requests one handler reads before its peer stops sending

\* ------------------------------------------------------ program constants
PlayStepsNum == 1        \* play_steps_in_s = 0.5 = PlayStepsNum / PlayStepsDen
PlayStepsDen == 2
FloatWidth == 4          \* struct format "f": four bytes per sample
END_OF_AUDIO == <<69, 78, 68, 95, 79, 70, 95, 65, 85, 68, 73, 79>>   \* b"END_OF_AUDIO"

Conns == {"A", "B"}      \* two concurrent connections
SampleVals == {1, 2}     \* sample values of ChunkSpec's inputs
Bytes == {97, 32, 255}   \* 'a', ' ' and a byte that is not valid UTF-8

Min(a, b) == IF a < b THEN a ELSE b

RECURSIVE SeqsUpTo(_, _)
SeqsUpTo(S, n) ==
    IF n = 0 THEN {<<>>}
    ELSE LET shorter == SeqsUpTo(S, n - 1)
         IN shorter \cup {Append(s, x) : s \in {t \in shorter : Len(t) = n - 1}, x \in S}

Ramp(n) == [k \in 1..n |-> k]     \* n distinct samples: sample k has value k

RECURSIVE Concat(_)
Concat(ss) == IF ss = <<>> THEN <<>> ELSE Head(ss) \o Concat(Tail(ss))

\* ------------------------------------------------------- generate_stream
\* Python slice s[lo:hi] for 0 <= lo, hi (the end is clamped to len(s)).
Slice(s, lo, hi) == SubSeq(s, lo + 1, Min(hi, Len(s)))

\* struct.pack(f"{len(chunk)}f", *chunk): FloatWidth bytes per sample, in order.
\* The first byte of a sample's group carries the model's sample value, the
\* others are zero: a fixed-width, injective encoding like IEEE-754 single.
Pack(chunk) ==
    [k \in 1..(FloatWidth * Len(chunk)) |->
        IF (k - 1) % FloatWidth = 0 THEN chunk[((k - 1) \div FloatWidth) + 1] ELSE 0]

\* chunk_size = int(final_sample_rate * play_steps_in_s)
ChunkSize(final_sample_rate) == (final_sample_rate * PlayStepsNum) \div PlayStepsDen

\* The state of one generator object: where it is suspended and its locals.
\*   at = "start"    created, or running up to the end of infer_batch_process
\*   at = "small"    suspended at the yield of line 82
\*   at = "loop"     suspended at the yield of line 95, loop variable i
\*   at = "finished" returned or raised
NoGen == [at |-> "none", audio_chunk |-> <<>>, chunk_size |-> 0, i |-> 0]
NewGen(audio, rate) ==
    [at |-> "start", audio_chunk |-> audio, chunk_size |-> ChunkSize(rate), i |-> 0]

Finished(g) == [g EXCEPT !.at = "finished"]
Stop(g) == [kind |-> "stop", off |-> 0, samples |-> <<>>, g |-> Finished(g)]
Raise(g) == [kind |-> "raise", off |-> 0, samples |-> <<>>, g |-> Finished(g)]
Yield(g, at, i, chunk) ==
    [kind |-> "yield", off |-> i, samples |-> chunk,
     g |-> [g EXCEPT !.at = at, !.i = i]]

\* line 80: if len(audio_chunk) < chunk_size
IsSmall(audio, chunk_size) == Len(audio) < chunk_size

\* line 81: the single chunk of the small-payload branch
SmallChunkMut(audio) == Slice(audio, 1, Len(audio))
SmallChunk(audio) == audio

\* lines 86-90: chunk = audio_chunk[i : i + chunk_size], the final one audio_chunk[i:]
LoopChunkMut(audio, chunk_size, i) == Slice(audio, i, i + chunk_size - 1)
LoopChunkEarlyTail(audio, chunk_size, i) ==
    IF i + 2 * chunk_size >= Len(audio)
    THEN Slice(audio, i, Len(audio))
    ELSE Slice(audio, i, i + chunk_size)
LoopChunk(audio, chunk_size, i) ==
    IF i + chunk_size >= Len(audio)
    THEN Slice(audio, i, Len(audio))
    ELSE Slice(audio, i, i + chunk_size)

\* lines 85-95: the for loop over range(0, len(audio_chunk), chunk_size), from i on
RECURSIVE LoopFrom(_, _)
LoopFrom(g, i) ==
    IF i >= Len(g.audio_chunk) THEN Stop(g)
    ELSE LET chunk == LoopChunk(g.audio_chunk, g.chunk_size, i)
         IN IF Len(chunk) > 0 THEN Yield(g, "loop", i, chunk)
            ELSE LoopFrom(g, i + g.chunk_size)

\* One next() on the generator, after infer_batch_process has returned.
GenNext(g) ==
    CASE g.at = "start" ->
            IF IsSmall(g.audio_chunk, g.chunk_size)
            THEN Yield(g, "small", 0, SmallChunk(g.audio_chunk))
            ELSE IF g.chunk_size = 0 THEN Raise(g)      \* range(): step must not be zero
            ELSE LoopFrom(g, 0)
      [] g.at = "small" -> Stop(g)                      \* line 83: return
      [] g.at = "loop" -> LoopFrom(g, g.i + g.chunk_size)
      [] OTHER -> Stop(g)

\* -------------------------------------------------------------- variables
VARIABLES
    cgen,        \* ChunkSpec: the generator under test
    cout,        \* ChunkSpec: the chunks it has yielded, [off, samples, bytes]
    cend,        \* ChunkSpec: "running", "stopped" (StopIteration) or "raised"
    srv,         \* start_server: [pc, conn]
    h,           \* handle_client: one record per connection
    peerClosed,  \* per connection: the client has closed its end
    closedInSynth  \* per connection: it did so while infer_batch_process ran

vars == <<cgen, cout, cend, srv, h, peerClosed, closedInSynth>>
cvars == <<cgen, cout, cend>>
svars == <<srv, h, peerClosed, closedInSynth>>

NoConn == "-"

\* A connection before accept() returns it. The fields of a handler:
\*   pc          "pending", "accepted", "recv", "synth", "send", "sendEnd",
\*               "finally", "done"
\*   open        client_socket is open
\*   data, text  the locals of lines 102 and 108, kept while they are live
\*   gen         the generator of line 111
\*   audio_chunk the loop variable of line 111, kept while it is live
\*   reqs        requests read and decoded so far
\*   calls       Synthesizer calls issued so far
\*   served      requests whose terminator was written
\*   closes      calls of client_socket.close()
\*   wlog        the arguments of the sendall calls that succeeded for the
\*               latest request, in order (empty once the thread has ended)
\*   yielded     the chunks the generator yielded for the latest request
\*               (empty once the thread has ended)
\*   why         why the loop was left: "-", "eof", "recv", "synth",
\*               "chunking", "pack", "write"
HandlerInit ==
    [pc |-> "pending", open |-> FALSE, data |-> <<>>, text |-> <<>>,
     gen |-> NoGen, audio_chunk |-> <<>>, reqs |-> 0, calls |-> 0, served |-> 0,
     closes |-> 0, wlog |-> <<>>, yielded |-> <<>>, why |-> "-"]

ServerInit ==
    /\ srv = [pc |-> "accept", conn |-> NoConn]
    /\ h = [c \in Conns |-> HandlerInit]
    /\ peerClosed = [c \in Conns |-> FALSE]
    /\ closedInSynth = [c \in Conns |-> FALSE]

\* -------------------------------------------------------------- ChunkSpec
ChunkInit ==
    /\ \E audio \in SeqsUpTo(SampleVals, MaxSamples), rate \in 0..MaxRate :
            cgen = NewGen(audio, rate)
    /\ cout = <<>>
    /\ cend = "running"
    /\ ServerInit

\* next(gen) yields a chunk
ChunkYield ==
    /\ cend = "running"
    /\ LET r == GenNext(cgen)
       IN /\ r.kind = "yield"
          /\ cgen' = r.g
          /\ cout' = Append(cout, [off |-> r.off, samples |-> r.samples,
                                   bytes |-> Pack(r.samples)])
          /\ cend' = cend
    /\ UNCHANGED svars

\* next(gen) raises StopIteration
ChunkStop ==
    /\ cend = "running"
    /\ LET r == GenNext(cgen)
       IN /\ r.kind = "stop"
          /\ cgen' = r.g
          /\ cend' = "stopped"
          /\ cout' = cout
    /\ UNCHANGED svars

\* next(gen) raises ValueError from range()
ChunkRaise ==
    /\ cend = "running"
    /\ LET r == GenNext(cgen)
       IN /\ r.kind = "raise"
          /\ cgen' = r.g
          /\ cend' = "raised"
          /\ cout' = cout
    /\ UNCHANGED svars

ChunkNext == ChunkYield \/ ChunkStop \/ ChunkRaise

ChunkSpec == ChunkInit /\ [][ChunkNext]_vars

\* ---------------------------------------------------------- handle_client
\* bytes.decode("utf-8") on the model's bytes: the ASCII bytes decode to their
\* characters, byte 255 is valid in no UTF-8 sequence and raises.
ValidUtf8(bs) == \A k \in 1..Len(bs) : bs[k] < 128
CharOf(b) == CASE b = 97 -> "a" [] b = 32 -> " " [] OTHER -> "?"
Decode(bs) == [k \in 1..Len(bs) |-> CharOf(bs[k])]

StripMut(t) == t
\* str.strip(): leading and trailing whitespace removed
IsSpace(ch) == ch = " "
RECURSIVE LStrip(_)
LStrip(t) == IF t # <<>> /\ IsSpace(Head(t)) THEN LStrip(Tail(t)) ELSE t
RECURSIVE RStrip(_)
RStrip(t) ==
    IF t # <<>> /\ IsSpace(t[Len(t)]) THEN RStrip(SubSeq(t, 1, Len(t) - 1)) ELSE t
Strip(t) == RStrip(LStrip(t))

Messages == SeqsUpTo(Bytes, MaxLen) \ {<<>>}      \* what one recv() may return

Chunk(r) == [off |-> r.off, samples |-> r.samples, bytes |-> Pack(r.samples)]

\* data and text are dead once infer_batch_process has the text; every local
\* is dead once the loop is left or iterates.
TextDead(hc) == [hc EXCEPT !.data = <<>>, !.text = <<>>]
Dead(hc) == [TextDead(hc) EXCEPT !.gen = NoGen, !.audio_chunk = <<>>]

ExceptNoFinally(hc, why) ==
    IF why = "recv" THEN [Dead(hc) EXCEPT !.pc = "done", !.why = why]
    ELSE [Dead(hc) EXCEPT !.pc = "finally", !.why = why]
ExceptEofContinue(hc, why) ==
    IF why = "eof" THEN [Dead(hc) EXCEPT !.pc = "recv", !.why = why]
    ELSE [Dead(hc) EXCEPT !.pc = "finally", !.why = why]
\* lines 117-120 and 122-126: an exception leaves the loop for the finally block
Except(hc, why) == [Dead(hc) EXCEPT !.pc = "finally", !.why = why]

\* line 111: the for statement calls next() on the generator; a yielded chunk
\* is bound to audio_chunk and the body (line 112) runs, StopIteration ends the
\* loop (line 115 runs), any other exception reaches line 117.
WhereAfterNextMut(kind) ==
    CASE kind = "yield" -> "sendEnd" [] kind = "stop" -> "sendEnd" [] OTHER -> "finally"
WhereAfterNext(kind) ==
    CASE kind = "yield" -> "send" [] kind = "stop" -> "sendEnd" [] OTHER -> "finally"

Advance(hc, packOk) ==
    LET r == GenNext(hc.gen)
    IN CASE r.kind = "yield" /\ packOk ->
                [hc EXCEPT !.pc = WhereAfterNext("yield"), !.gen = r.g,
                           !.audio_chunk = Pack(r.samples),
                           !.yielded = Append(@, Chunk(r))]
         [] r.kind = "yield" /\ ~packOk -> Except(hc, "pack")
         [] r.kind = "stop" -> [hc EXCEPT !.pc = WhereAfterNext("stop"), !.gen = r.g]
         [] OTHER -> Except(hc, "chunking")

AcceptAfterJoin(c) ==
    /\ srv.pc = "accept"
    /\ h[c].pc = "pending"
    /\ \A d \in Conns \ {c} : h[d].pc \in {"pending", "done"}
    /\ srv' = [pc |-> "start", conn |-> c]
    /\ h' = [h EXCEPT ![c] = [@ EXCEPT !.pc = "accepted", !.open = TRUE]]
    /\ UNCHANGED <<peerClosed, closedInSynth, cvars>>
\* lines 135-136: accept() returns a pending connection's socket
Accept(c) ==
    /\ srv.pc = "accept"
    /\ h[c].pc = "pending"
    /\ srv' = [pc |-> "start", conn |-> c]
    /\ h' = [h EXCEPT ![c] = [@ EXCEPT !.pc = "accepted", !.open = TRUE]]
    /\ UNCHANGED <<peerClosed, closedInSynth, cvars>>

\* lines 138-139: the handler thread is started, the loop returns to accept()
StartHandler ==
    /\ srv.pc = "start"
    /\ h' = [h EXCEPT ![srv.conn] = [@ EXCEPT !.pc = "recv"]]
    /\ srv' = [pc |-> "accept", conn |-> NoConn]
    /\ UNCHANGED <<peerClosed, closedInSynth, cvars>>

RecvRequestPipelined(c, msg) ==
    /\ h[c].pc \in {"recv", "send"}
    /\ ~peerClosed[c]
    /\ h[c].reqs < MaxRequests
    /\ h' = [h EXCEPT ![c] =
                IF ~ValidUtf8(msg) THEN Except(@, "recv")
                ELSE [@ EXCEPT !.pc = "synth", !.data = Decode(msg),
                               !.text = Strip(Decode(msg)),
                               !.reqs = @ + 1, !.calls = @ + 1,
                               !.wlog = <<>>, !.yielded = <<>>]]
    /\ UNCHANGED <<srv, peerClosed, closedInSynth, cvars>>
\* lines 102-111: recv() returns a message; it is decoded and stripped, the
\* generator is created and its first next() enters infer_batch_process.
RecvRequest(c, msg) ==
    /\ h[c].pc = "recv"
    /\ ~peerClosed[c]
    /\ h[c].reqs < MaxRequests
    /\ h' = [h EXCEPT ![c] =
                IF ~ValidUtf8(msg) THEN Except(@, "recv")
                ELSE [@ EXCEPT !.pc = "synth", !.data = Decode(msg),
                               !.text = Strip(Decode(msg)),
                               !.reqs = @ + 1, !.calls = @ + 1,
                               !.wlog = <<>>, !.yielded = <<>>]]
    /\ UNCHANGED <<srv, peerClosed, closedInSynth, cvars>>

RecvEofNoCheck(c) ==
    /\ h[c].pc = "recv"
    /\ peerClosed[c]
    /\ h' = [h EXCEPT ![c] = [@ EXCEPT !.pc = "synth", !.calls = @ + 1]]
    /\ UNCHANGED <<srv, peerClosed, closedInSynth, cvars>>
\* lines 102-104: recv() returns b"" because the peer closed: break
RecvEof(c) ==
    /\ h[c].pc = "recv"
    /\ peerClosed[c]
    /\ h' = [h EXCEPT ![c] = Except(@, "eof")]
    /\ UNCHANGED <<srv, peerClosed, closedInSynth, cvars>>

\* lines 102, 122-124: recv() raises (connection reset, timeout of the network)
RecvError(c) ==
    /\ h[c].pc = "recv"
    /\ h' = [h EXCEPT ![c] = Except(@, "recv")]
    /\ UNCHANGED <<srv, peerClosed, closedInSynth, cvars>>

SynthReturnUnlessGone(c, n, rate, packOk) ==
    /\ h[c].pc = "synth"
    /\ ~peerClosed[c]
    /\ h' = [h EXCEPT ![c] =
                Advance([TextDead(@) EXCEPT !.gen = NewGen(Ramp(n), rate)], packOk)]
    /\ UNCHANGED <<srv, peerClosed, closedInSynth, cvars>>
\* lines 62-95: infer_batch_process returns n samples at rate `rate`; the
\* generator runs on to its first yield, return or exception.
SynthReturn(c, n, rate, packOk) ==
    /\ h[c].pc = "synth"
    /\ h' = [h EXCEPT ![c] =
                Advance([TextDead(@) EXCEPT !.gen = NewGen(Ramp(n), rate)], packOk)]
    /\ UNCHANGED <<srv, peerClosed, closedInSynth, cvars>>

SynthFailContinue(c) ==
    /\ h[c].pc = "synth"
    /\ h' = [h EXCEPT ![c] = [Dead(@) EXCEPT !.pc = "recv", !.why = "synth"]]
    /\ UNCHANGED <<srv, peerClosed, closedInSynth, cvars>>
\* lines 62-75: preprocessing, loading or infer_batch_process raises
SynthFail(c) ==
    /\ h[c].pc = "synth"
    /\ h' = [h EXCEPT ![c] = Except(@, "synth")]
    /\ UNCHANGED <<srv, peerClosed, closedInSynth, cvars>>

SendChunkSerialized(c, packOk) ==
    /\ h[c].pc = "send"
    /\ \A d \in Conns \ {c} : h[d].pc \notin {"send", "sendEnd"}
    /\ h' = [h EXCEPT ![c] =
                Advance([@ EXCEPT !.wlog = Append(@, h[c].audio_chunk)], packOk)]
    /\ UNCHANGED <<srv, peerClosed, closedInSynth, cvars>>
\* lines 111-112: sendall(audio_chunk) returns; the for statement calls next()
SendChunk(c, packOk) ==
    /\ h[c].pc = "send"
    /\ h' = [h EXCEPT ![c] =
                Advance([@ EXCEPT !.wlog = Append(@, h[c].audio_chunk)], packOk)]
    /\ UNCHANGED <<srv, peerClosed, closedInSynth, cvars>>

SendChunkFailContinue(c) ==
    /\ h[c].pc = "send"
    /\ h' = [h EXCEPT ![c] = Advance([@ EXCEPT !.why = "write"], TRUE)]
    /\ UNCHANGED <<srv, peerClosed, closedInSynth, cvars>>
\* line 112: sendall(audio_chunk) raises
SendChunkFail(c) ==
    /\ h[c].pc = "send"
    /\ h' = [h EXCEPT ![c] = Except(@, "write")]
    /\ UNCHANGED <<srv, peerClosed, closedInSynth, cvars>>

SendEndThenBreak(c) ==
    /\ h[c].pc = "sendEnd"
    /\ h' = [h EXCEPT ![c] =
                [Dead(@) EXCEPT !.pc = "finally", !.wlog = Append(@, END_OF_AUDIO),
                                !.served = @ + 1]]
    /\ UNCHANGED <<srv, peerClosed, closedInSynth, cvars>>
\* line 115: sendall(b"END_OF_AUDIO") returns; the while loop iterates
SendEnd(c) ==
    /\ h[c].pc = "sendEnd"
    /\ h' = [h EXCEPT ![c] =
                [Dead(@) EXCEPT !.pc = "recv", !.wlog = Append(@, END_OF_AUDIO),
                                !.served = @ + 1]]
    /\ UNCHANGED <<srv, peerClosed, closedInSynth, cvars>>

\* line 115: sendall(b"END_OF_AUDIO") raises
SendEndFail(c) ==
    /\ h[c].pc = "sendEnd"
    /\ h' = [h EXCEPT ![c] = Except(@, "write")]
    /\ UNCHANGED <<srv, peerClosed, closedInSynth, cvars>>

CloseShared(c) ==
    /\ h[c].pc = "finally"
    /\ h' = [d \in Conns |->
                IF d = c
                THEN [h[d] EXCEPT !.pc = "done", !.open = FALSE, !.closes = @ + 1,
                                  !.wlog = <<>>, !.yielded = <<>>]
                ELSE [h[d] EXCEPT !.open = FALSE]]
    /\ UNCHANGED <<srv, peerClosed, closedInSynth, cvars>>
CloseInsideLoop(c) ==
    /\ h[c].pc = "finally"
    /\ h' = [h EXCEPT ![c] = [@ EXCEPT !.pc = IF h[c].closes = 0 THEN "recv" ELSE "done",
                                       !.open = FALSE, !.closes = @ + 1,
                                       !.wlog = <<>>, !.yielded = <<>>]]
    /\ UNCHANGED <<srv, peerClosed, closedInSynth, cvars>>
\* lines 125-126: finally: client_socket.close(); the thread ends
Close(c) ==
    /\ h[c].pc = "finally"
    /\ h' = [h EXCEPT ![c] = [@ EXCEPT !.pc = "done", !.open = FALSE,
                                       !.closes = @ + 1,
                                       !.wlog = <<>>, !.yielded = <<>>]]
    /\ UNCHANGED <<srv, peerClosed, closedInSynth, cvars>>

\* The client closes its end of the connection.
ClientClose(c) ==
    /\ ~peerClosed[c]
    /\ h[c].pc # "done"
    /\ peerClosed' = [peerClosed EXCEPT ![c] = TRUE]
    /\ closedInSynth' = [closedInSynth EXCEPT ![c] = (h[c].pc = "synth")]
    /\ UNCHANGED <<srv, h, cvars>>

Init ==
    /\ ServerInit
    /\ cgen = NoGen /\ cout = <<>> /\ cend = "stopped"

Next ==
    \/ StartHandler
    \/ \E c \in Conns :
        \/ Accept(c)
        \/ \E msg \in Messages : RecvRequest(c, msg)
        \/ RecvEof(c)
        \/ RecvError(c)
        \/ \E n \in 0..MaxPayload, rate \in 0..MaxConnRate, packOk \in BOOLEAN :
              SynthReturn(c, n, rate, packOk)
        \/ SynthFail(c)
        \/ \E packOk \in BOOLEAN : SendChunk(c, packOk)
        \/ SendChunkFail(c)
        \/ SendEnd(c)
        \/ SendEndFail(c)
        \/ Close(c)
        \/ ClientClose(c)

Spec == Init /\ [][Next]_vars


\* The specifications with fairness draw the handlers' inputs from smaller
\* sets than Spec does: whether a handler goes on depends on where it is in
\* handle_client and generate_stream, not on the bytes and samples it moves.
\* The sets keep every path: a valid, a whitespace-only and an undecodable
\* message; payloads that take the small-payload branch, the loop with two
\* chunks, and the range() that raises.
LiveMessages == {<<97>>, <<32>>, <<255>>}
LiveLens == {0, 2}
LiveRates == {0, 2}

LiveNext ==
    \/ StartHandler
    \/ \E c \in Conns :
        \/ Accept(c)
        \/ \E msg \in LiveMessages : RecvRequest(c, msg)
        \/ RecvEof(c)
        \/ RecvError(c)
        \/ \E n \in LiveLens, rate \in LiveRates, packOk \in BOOLEAN :
              SynthReturn(c, n, rate, packOk)
        \/ SynthFail(c)
        \/ \E packOk \in BOOLEAN : SendChunk(c, packOk)
        \/ SendChunkFail(c)
        \/ SendEnd(c)
        \/ SendEndFail(c)
        \/ Close(c)
        \/ ClientClose(c)

LiveBase == Init /\ [][LiveNext]_vars

\* The main thread runs: accept() returns when a connection is pending and
\* Thread.start() returns. Nothing is assumed of the handler threads, which
\* may stay blocked in recv, infer_batch_process or sendall for ever.
AcceptFairness == WF_vars(StartHandler) /\ \A c \in Conns : WF_vars(Accept(c))
AcceptSpec == LiveBase /\ AcceptFairness

\* Handler c's thread runs and its blocking calls come back: a call of
\* infer_batch_process returns or raises, a sendall returns or raises, a recv
\* on a connection the peer has closed returns b"", close() returns. A recv on
\* an open connection may block for ever.
HandlerStep(c) ==
    \/ \E n \in LiveLens, rate \in LiveRates, packOk \in BOOLEAN :
          SynthReturn(c, n, rate, packOk)
    \/ SynthFail(c)
    \/ \E packOk \in BOOLEAN : SendChunk(c, packOk)
    \/ SendChunkFail(c)
    \/ SendEnd(c)
    \/ SendEndFail(c)
    \/ RecvEof(c)
    \/ Close(c)
HandlerFairness(c) == WF_vars(HandlerStep(c))

\* Handler c's thread runs and its blocking calls return when they can: the
\* Synthesizer call returns, a sendall that can complete does, a recv on a
\* connection the peer has closed returns b"", close() returns. Each call may
\* still raise instead.
HandlerReturns(c) ==
    \/ \E n \in LiveLens, rate \in LiveRates, packOk \in BOOLEAN :
          SynthReturn(c, n, rate, packOk)
    \/ \E packOk \in BOOLEAN : SendChunk(c, packOk)
    \/ SendEnd(c)
    \/ RecvEof(c)
    \/ Close(c)

\* The accept loop and the handler of connection "B" are scheduled fairly and
\* B's calls return; the handler of "A" may stay blocked in any of its calls
\* for ever.
OneHandlerSpec == LiveBase /\ AcceptFairness /\ WF_vars(HandlerReturns("B"))

\* The accept loop and every handler are scheduled fairly.
LiveSpec == LiveBase /\ AcceptFairness /\ \A c \in Conns : HandlerFairness(c)

\* ----------------------------------------------------- claims, ChunkSpec
ChunkSamples == Concat([k \in 1..Len(cout) |-> cout[k].samples])
ChunkBytes == Concat([k \in 1..Len(cout) |-> cout[k].bytes])
CeilDiv(a, b) == (a + b - 1) \div b
N == Len(cgen.audio_chunk)
C == cgen.chunk_size

\* C2: for every sample sequence and every chunk size >= 1, the chunks yielded
\* so far concatenate to a prefix of the sample sequence, and once the
\* generator is exhausted they concatenate to the whole sequence, as samples
\* and as packed bytes: nothing is lost, duplicated or reordered.
C2_Lossless ==
    C >= 1 =>
        /\ ChunkSamples = SubSeq(cgen.audio_chunk, 1, Len(ChunkSamples))
        /\ cend = "stopped" =>
              /\ ChunkSamples = cgen.audio_chunk
              /\ ChunkBytes = Pack(cgen.audio_chunk)

\* C2 witness: an exhausted generator that split a sequence holding both
\* sample values into three or more chunks, the last one shorter.
C2_Witness ==
    /\ cend = "stopped" /\ C >= 2 /\ Len(cout) >= 3
    /\ Len(cout[Len(cout)].samples) < C
    /\ \E j, k \in 1..N : cgen.audio_chunk[j] # cgen.audio_chunk[k]

\* C3 (as claimed): no chunk yielded by generate_stream holds zero samples,
\* and a sequence of zero samples yields zero chunks.
C3_NoEmptyChunk ==
    /\ \A k \in 1..Len(cout) : Len(cout[k].samples) > 0
    /\ (cend = "stopped" /\ N = 0) => Len(cout) = 0

\* C4: a sequence shorter than the chunk size gives exactly one chunk, which
\* holds all its samples.
C4_SmallPayload ==
    (cend = "stopped" /\ N < C) =>
        /\ Len(cout) = 1
        /\ cout[1].samples = cgen.audio_chunk
        /\ cout[1].bytes = Pack(cgen.audio_chunk)

\* C4 witness: an exhausted generator whose non-empty input was shorter than
\* the chunk size.
C4_Witness == cend = "stopped" /\ 2 <= N /\ N < C /\ Len(cout) = 1

\* C5: a sequence of N >= chunk_size >= 1 samples gives ceil(N / chunk_size)
\* chunks; all but the last hold chunk_size samples, the last holds
\* N mod chunk_size, or chunk_size when that is zero; chunks start at the
\* multiples of chunk_size.
C5_ChunkCount ==
    (cend = "stopped" /\ C >= 1 /\ N >= C) =>
        /\ Len(cout) = CeilDiv(N, C)
        /\ \A k \in 1..Len(cout) :
              /\ cout[k].off = (k - 1) * C
              /\ Len(cout[k].samples) =
                    IF k < Len(cout) THEN C
                    ELSE IF N % C = 0 THEN C ELSE N % C

\* C5 witness: four full chunks from a sequence that is an exact multiple of
\* the chunk size (the 48000 / 12000 scenario, scaled down).
C5_Witness ==
    /\ cend = "stopped" /\ C >= 1 /\ N = 4 * C /\ Len(cout) = 4
    /\ \A k \in 1..4 : Len(cout[k].samples) = C

\* C5 witness for the remainder case is part of C2's witness.

\* ---------------------------------------------------------- claims, Spec
Last(w) == w[Len(w)]
YieldedBytes(c) == [k \in 1..Len(h[c].yielded) |-> h[c].yielded[k].bytes]
Blank(data) == data # <<>> /\ \A k \in 1..Len(data) : data[k] = " "
InRequest(c) == h[c].pc \in {"synth", "send", "sendEnd"}
Failures == {"recv", "synth", "chunking", "pack", "write"}

\* C1: within one request the successful sendall calls are the chunks the
\* generator yielded, in the order yielded and at strictly increasing sample
\* offsets; the terminator is written only as the last write, only after
\* every yielded chunk, and a request that completed wrote exactly its
\* chunks followed by one terminator.
C1_TerminatorPlacement ==
    \A c \in Conns :
        LET w == h[c].wlog
            y == h[c].yielded
        IN /\ \A j, k \in 1..Len(y) : j < k => y[j].off < y[k].off
           /\ \A k \in 1..Len(w) :
                 IF w[k] = END_OF_AUDIO
                 THEN k = Len(w) /\ k = Len(y) + 1 /\ ~InRequest(c)
                 ELSE k <= Len(y) /\ w[k] = y[k].bytes
           /\ (h[c].pc = "recv" /\ h[c].reqs > 0) =>
                 w = YieldedBytes(c) \o <<END_OF_AUDIO>>

\* C1 witness: a completed request of two chunks and the terminator.
C1_Witness ==
    \E c \in Conns :
        /\ h[c].pc = "recv" /\ h[c].served = 1
        /\ Len(h[c].wlog) = 3 /\ Last(h[c].wlog) = END_OF_AUDIO

FailStep(a) ==
    /\ h[a].pc \in {"recv", "synth", "send", "sendEnd"}
    /\ h'[a].pc = "finally"
    /\ h'[a].why \in Failures
CloseStep(a) == h[a].pc = "finally" /\ h'[a].pc = "done"
C7_Isolation ==
    [][\A a \in Conns :
          (FailStep(a) \/ CloseStep(a)) =>
              /\ srv' = srv
              /\ \A b \in Conns \ {a} :
                    h'[b] = h[b] /\ peerClosed'[b] = peerClosed[b]]_vars

\* C7 witness: a's handler has ended after a Synthesizer failure while b's
\* request is still being streamed on its open socket.
C7_Witness ==
    \E a, b \in Conns :
        /\ a # b
        /\ h[a].pc = "done" /\ h[a].why = "synth"
        /\ h[b].pc = "send" /\ h[b].open /\ Len(h[b].wlog) >= 1

\* C8: when the terminator's sendall returns, the handler is awaiting the
\* next request on the same, still open socket, with the request counted as
\* served and the terminator its last write.
C8_Reuse ==
    [][\A c \in Conns :
          (h[c].pc = "sendEnd" /\ h'[c].pc # "sendEnd" /\ h'[c].why # "write") =>
              /\ h'[c].pc = "recv"
              /\ h'[c].open /\ h'[c].closes = 0
              /\ h'[c].served = h[c].served + 1
              /\ Last(h'[c].wlog) = END_OF_AUDIO]_vars

\* C8 witness: MaxRequests requests served one after the other on one socket
\* that was never closed, each to its own terminator.
C8_Witness ==
    \E c \in Conns :
        /\ h[c].pc = "recv" /\ h[c].served = MaxRequests /\ MaxRequests >= 2
        /\ h[c].open /\ h[c].closes = 0
        /\ Last(h[c].wlog) = END_OF_AUDIO

\* C9: after a Synthesizer failure the handler has written nothing for that
\* request, has issued no further Synthesizer call, and can only close the
\* socket: it is in the finally block, or has ended with the socket closed.
C9_SynthFailure ==
    \A c \in Conns :
        h[c].why = "synth" =>
            /\ h[c].pc \in {"finally", "done"}
            /\ h[c].wlog = <<>>
            /\ h[c].calls = h[c].reqs /\ h[c].served = h[c].reqs - 1
            /\ h[c].pc = "done" => ~h[c].open /\ h[c].closes = 1

\* C9 witness: the Synthesizer failed on a connection's second request,
\* after the first was served.
C9_Witness ==
    \E c \in Conns :
        h[c].why = "synth" /\ h[c].pc = "finally" /\ h[c].served = 1

\* C10: a handler that has terminated, by whichever exit path, has closed
\* its socket.
C10_Released ==
    \A c \in Conns :
        h[c].pc = "done" =>
            ~h[c].open /\ h[c].closes = 1 /\ h[c].why \in Failures \cup {"eof"}

\* C10 witness: two handlers terminated by different exit paths, one by a
\* read failure and one by a write failure.
C10_Witness ==
    /\ h["A"].pc = "done" /\ h["A"].why = "recv"
    /\ h["B"].pc = "done" /\ h["B"].why = "write"

\* C11: under AcceptSpec, where only the accept loop is scheduled fairly and
\* every handler may stay blocked for ever, each pending connection is
\* eventually accepted and its handler started.
C11_AcceptNeverWaits ==
    \A c \in Conns : (h[c].pc = "pending") ~> (h[c].pc \notin {"pending", "accepted"})

\* C11 witness: b has just been accepted while a's handler is blocked in a
\* sendall in the middle of a request.
C11_Witness ==
    \E a, b \in Conns :
        /\ h[a].pc = "send" /\ Len(h[a].wlog) >= 1
        /\ srv = [pc |-> "start", conn |-> b] /\ h[b].pc = "accepted"

\* C12: a connection has at most one request in progress: every Synthesizer
\* call belongs to one request read, a request is read only when every
\* earlier one was served, and while a call or its streaming is in progress
\* exactly one request is unserved.
C12_OneInFlight ==
    \A c \in Conns :
        /\ h[c].calls = h[c].reqs
        /\ h[c].reqs - h[c].served \in {0, 1}
        /\ InRequest(c) => h[c].reqs = h[c].served + 1
        /\ h[c].pc = "recv" => h[c].reqs = h[c].served
        /\ h[c].pc = "synth" => h[c].gen = NoGen /\ h[c].wlog = <<>>

\* C12 witness: the second Synthesizer call of a connection in flight, after
\* the first request was served.
C12_Witness ==
    \E c \in Conns :
        h[c].pc = "synth" /\ h[c].calls = 2 /\ h[c].served = 1 /\ h[c].open

\* C13: after a sendall failure the handler is in the finally block or has
\* ended with the socket closed; the request was not served, its writes are
\* a prefix of its yielded chunks without the terminator, and no further
\* request was read.
C13_WriteFailureAborts ==
    \A c \in Conns :
        h[c].why = "write" =>
            /\ h[c].pc \in {"finally", "done"}
            /\ h[c].served = h[c].reqs - 1 /\ h[c].calls = h[c].reqs
            /\ \A k \in 1..Len(h[c].wlog) :
                  /\ h[c].wlog[k] # END_OF_AUDIO
                  /\ k <= Len(h[c].yielded) /\ h[c].wlog[k] = h[c].yielded[k].bytes
            /\ h[c].pc = "done" => ~h[c].open

\* C13 witness: the second chunk's sendall failed after the first chunk was
\* written.
C13_Witness ==
    \E c \in Conns :
        /\ h[c].why = "write" /\ h[c].pc = "finally"
        /\ Len(h[c].wlog) = 1 /\ Len(h[c].yielded) = 2

\* C14 (as claimed): for every sample rate the generator ends normally, with
\* a chunk size of at least 1.
C14_MinChunkSize == cend # "running" => (C >= 1 /\ cend = "stopped")

\* C15: a handler step taken at recv once the peer has closed, other than a
\* failing recv, is the zero-length read: it leaves the loop for the finally
\* block without an error, a Synthesizer call or a write; a handler that
\* left that way ends with its socket closed.
C15_PeerClosedRead ==
    [][\A c \in Conns :
          /\ (h[c].pc = "recv" /\ peerClosed[c] /\ h'[c] # h[c] /\ h'[c].why # "recv") =>
                /\ h'[c].pc = "finally" /\ h'[c].why = "eof"
                /\ h'[c].calls = h[c].calls /\ h'[c].reqs = h[c].reqs
                /\ h'[c].wlog = h[c].wlog
          /\ (h[c].why = "eof" /\ h'[c] # h[c]) =>
                h'[c].pc = "done" /\ ~h'[c].open /\ h'[c].why = "eof"
                /\ h'[c].calls = h[c].calls]_vars

\* C15 witness: a handler that served a request has ended on a zero-length
\* read, its socket closed.
C15_Witness ==
    \E c \in Conns :
        /\ h[c].pc = "done" /\ h[c].why = "eof" /\ ~h[c].open
        /\ h[c].served = 1 /\ h[c].calls = 1

\* C18: a socket is closed at most once, it is closed exactly when its
\* handler has ended, it is open from accept until then, and a handler that
\* has ended takes no further step.
C18_ClosedOnce ==
    [][\A c \in Conns :
          /\ h'[c].closes <= 1
          /\ h'[c].closes = 1 <=> h'[c].pc = "done"
          /\ h'[c].open <=> h'[c].pc \notin {"pending", "done"}
          /\ h[c].pc = "done" => h'[c] = h[c]]_vars

\* C18 witness: a's handler has ended, its socket closed once, while b's
\* handler goes on with a later request.
C18_Witness ==
    \E a, b \in Conns :
        /\ h[a].pc = "done" /\ h[a].closes = 1 /\ ~h[a].open
        /\ h[b].pc = "sendEnd" /\ h[b].reqs = 2

\* C16 (as claimed): when the client closed while its request was being
\* synthesized, the writes that follow fail: none is made successfully and
\* the handler never gets back to awaiting a request.
C16_WritesFail ==
    \A c \in Conns :
        closedInSynth[c] => (h[c].wlog = <<>> /\ h[c].pc # "recv")

\* C16 (amended): when the client closed while its request was being
\* synthesized, the call is not cancelled (it can still return) and no other
\* call is issued; the writes that follow may succeed or fail: after a failed
\* write the handler only closes the socket, and when every write succeeded
\* the request was served to its terminator and the handler is back at recv,
\* where the zero-length read is ready; a handler that ended has closed its
\* socket.
C16_NoCancellation ==
    \A c \in Conns :
        closedInSynth[c] =>
            /\ h[c].pc \in {"synth", "send", "sendEnd", "recv", "finally", "done"}
            /\ h[c].calls = h[c].reqs
            /\ h[c].pc = "synth" =>
                  ENABLED (\E n \in 0..MaxPayload, rate \in 0..MaxConnRate :
                              SynthReturn(c, n, rate, TRUE))
            /\ h[c].why = "write" =>
                  h[c].pc \in {"finally", "done"} /\ h[c].served = h[c].reqs - 1
            /\ h[c].pc = "recv" =>
                  /\ h[c].served = h[c].reqs /\ Last(h[c].wlog) = END_OF_AUDIO
                  /\ ENABLED RecvEof(c)
            /\ h[c].pc = "done" => ~h[c].open /\ h[c].why \in Failures \cup {"eof"}

\* C16 witness: the client closed during the Synthesizer call, the call
\* returned, one chunk was written and the next sendall failed.
C16_Witness ==
    \E c \in Conns :
        /\ closedInSynth[c]
        /\ h[c].pc = "finally" /\ h[c].why = "write" /\ Len(h[c].wlog) = 1

\* C17: under OneHandlerSpec, where the handler of "A" may stay blocked for
\* ever in a recv or a sendall, a request of "B" whose Synthesizer call is in
\* flight is eventually served to its terminator, unless B's own Synthesizer
\* call, chunking or write fails.
C17_NoCrossBlocking ==
    (h["B"].pc = "synth")
        ~> (\/ h["B"].pc = "recv" /\ h["B"].served = h["B"].reqs
                /\ h["B"].wlog # <<>> /\ Last(h["B"].wlog) = END_OF_AUDIO
            \/ h["B"].why \in Failures)

\* C17 witness: a request of "B" was served to its terminator while the
\* handler of "A" sits in the first sendall of its request.
C17_Witness ==
    /\ h["A"].pc = "send" /\ h["A"].wlog = <<>> /\ h["A"].reqs = 1
    /\ h["B"].pc = "recv" /\ h["B"].served = 1
    /\ Last(h["B"].wlog) = END_OF_AUDIO /\ Len(h["B"].wlog) = 2

\* C19: under LiveSpec, once a connection's peer has closed, its handler
\* eventually ends with the socket closed.
C19_HandlerTerminates ==
    \A c \in Conns : peerClosed[c] ~> (h[c].pc = "done" /\ ~h[c].open)

\* C19 witness: a handler ended with its socket closed after its peer closed
\* in the middle of the streaming of its second request.
C19_Witness ==
    \E c \in Conns :
        /\ peerClosed[c] /\ ~closedInSynth[c]
        /\ h[c].pc = "done" /\ ~h[c].open /\ h[c].reqs = 2 /\ h[c].served = 1

====
